---- MODULE Spec2Model ----
(***************************************************************************)
(* webcam-colorspace: the capture-test pipeline (src/main.rs), the NV12 to *)
(* RGB24 conversion (src/yuv.rs), the horizontal mirror (src/main.rs) and  *)
(* the BMP writer (src/bmp.rs).                                            *)
(*                                                                         *)
(* Numbers.  TLC's integers are 32-bit signed, while the program computes  *)
(* in u32, usize (64-bit) and f64.  Every quantity that can pass 2^31 - 1  *)
(* is therefore kept as a natural number in base 256, least significant    *)
(* digit first and without leading zero digits ("Big"): a u32 is a Big of  *)
(* at most four digits and wrapping to u32 keeps the low four digits.  The *)
(* f64 expressions of yuv.rs are evaluated over exact signed fractions of  *)
(* Bigs ("Rat").                                                           *)
(***************************************************************************)
EXTENDS Integers, Sequences, FiniteSets, TLC

\* ------------------------------------------------------------------------
\* Bounds of the model
\* ------------------------------------------------------------------------
MaxWidth == 4
MaxHeight == 4

\* ------------------------------------------------------------------------
\* Natural numbers in base 256 (Big)
\* ------------------------------------------------------------------------
Min(a, b) == IF a <= b THEN a ELSE b

RECURSIVE Big(_)
Big(n) == IF n = 0 THEN <<>> ELSE <<n % 256>> \o Big(n \div 256)

RECURSIVE Norm(_)
Norm(b) ==
    IF b = <<>> THEN <<>>
    ELSE IF b[Len(b)] = 0 THEN Norm(SubSeq(b, 1, Len(b) - 1))
    ELSE b

Digit(b, i) == IF i <= Len(b) THEN b[i] ELSE 0

RECURSIVE AddFrom(_, _, _, _)
AddFrom(a, b, i, carry) ==
    IF i > Len(a) /\ i > Len(b)
    THEN IF carry = 0 THEN <<>> ELSE <<carry>>
    ELSE LET s == Digit(a, i) + Digit(b, i) + carry
         IN  <<s % 256>> \o AddFrom(a, b, i + 1, s \div 256)

BAdd(a, b) == Norm(AddFrom(a, b, 1, 0))

\* a - b for a >= b
RECURSIVE SubFrom(_, _, _, _)
SubFrom(a, b, i, borrow) ==
    IF i > Len(a) THEN <<>>
    ELSE LET s == Digit(a, i) - Digit(b, i) - borrow
         IN  IF s < 0 THEN <<s + 256>> \o SubFrom(a, b, i + 1, 1)
                      ELSE <<s>> \o SubFrom(a, b, i + 1, 0)

BSub(a, b) == Norm(SubFrom(a, b, 1, 0))

\* a * k for a small natural k (k < 2^22)
RECURSIVE MulSmallFrom(_, _, _, _)
MulSmallFrom(a, k, i, carry) ==
    IF i > Len(a) THEN Big(carry)
    ELSE LET s == a[i] * k + carry
         IN  <<s % 256>> \o MulSmallFrom(a, k, i + 1, s \div 256)

BMulSmall(a, k) == Norm(MulSmallFrom(a, k, 1, 0))

RECURSIVE BMul(_, _)
BMul(a, b) ==
    IF b = <<>> \/ a = <<>> THEN <<>>
    ELSE BAdd(BMulSmall(a, b[1]), Norm(<<0>> \o BMul(a, Tail(b))))

\* comparison of normalized Bigs, from the most significant digit
RECURSIVE LessFrom(_, _, _)
LessFrom(a, b, i) ==
    IF i = 0 THEN FALSE
    ELSE IF a[i] # b[i] THEN a[i] < b[i]
    ELSE LessFrom(a, b, i - 1)

BLess(a, b) ==
    IF Len(a) # Len(b) THEN Len(a) < Len(b) ELSE LessFrom(a, b, Len(a))

BLeq(a, b) == ~BLess(b, a)

\* floor(a / k) for a small natural k > 0, most significant digit first
RECURSIVE DivSmallFrom(_, _, _, _)
DivSmallFrom(a, k, i, rem) ==
    IF i = 0 THEN <<>>
    ELSE LET cur == rem * 256 + a[i]
         IN  DivSmallFrom(a, k, i - 1, cur % k) \o <<cur \div k>>

BDivSmall(a, k) == Norm(DivSmallFrom(a, k, Len(a), 0))

\* the value of a Big below 2^31 as an integer
RECURSIVE ToInt(_)
ToInt(b) == IF b = <<>> THEN 0 ELSE b[1] + 256 * ToInt(Tail(b))

\* u32: at most four digits
Fits32(b) == Len(b) <= 4
Wrap32(b) == Norm(SubSeq(b, 1, Min(4, Len(b))))

\* floor(a / b) as an integer, for b > 0 and a quotient below 2^21: the least
\* power of two above the quotient, then bisection on q * b <= a
RECURSIVE QuotBound(_, _, _)
QuotBound(a, b, hi) ==
    IF BLess(a, BMulSmall(b, hi)) THEN hi ELSE QuotBound(a, b, 2 * hi)

RECURSIVE QuotBetween(_, _, _, _)
QuotBetween(a, b, lo, hi) ==
    IF lo = hi THEN lo
    ELSE LET mid == (lo + hi + 1) \div 2
         IN  IF BLeq(BMulSmall(b, mid), a) THEN QuotBetween(a, b, mid, hi)
                                           ELSE QuotBetween(a, b, lo, mid - 1)

BQuot(a, b) == QuotBetween(a, b, 0, QuotBound(a, b, 1) - 1)

\* ------------------------------------------------------------------------
\* Exact signed fractions (Rat): (-1)^neg * n / d with d > 0
\* ------------------------------------------------------------------------
Rat(neg, n, d) == [neg |-> neg /\ n # <<>>, n |-> n, d |-> d]

RInt(i) == IF i < 0 THEN Rat(TRUE, Big(-i), Big(1)) ELSE Rat(FALSE, Big(i), Big(1))

\* the decimal literal num / den
RDec(num, den) == Rat(FALSE, Big(num), Big(den))

RNeg(x) == Rat(~x.neg, x.n, x.d)

RAdd(x, y) ==
    LET xn == BMul(x.n, y.d)
        yn == BMul(y.n, x.d)
        cd == BMul(x.d, y.d)
    IN  IF x.neg = y.neg THEN Rat(x.neg, BAdd(xn, yn), cd)
        ELSE IF BLess(xn, yn) THEN Rat(y.neg, BSub(yn, xn), cd)
        ELSE Rat(x.neg, BSub(xn, yn), cd)

RSub(x, y) == RAdd(x, RNeg(y))

RMul(x, y) == Rat(x.neg # y.neg, BMul(x.n, y.n), BMul(x.d, y.d))

\* x / y for y # 0
RDiv(x, y) == Rat(x.neg # y.neg, BMul(x.n, y.d), BMul(x.d, y.n))

\* f64::round: to the nearest integer, halves away from zero
RRound(x) ==
    LET nearest == BQuot(BAdd(BMulSmall(x.n, 2), x.d), BMulSmall(x.d, 2))
    IN  IF x.neg THEN -nearest ELSE nearest

\* ------------------------------------------------------------------------
\* src/yuv.rs
\* ------------------------------------------------------------------------
\* A Rust panic (an index or a slice out of range, an arithmetic overflow in a
\* build with overflow checks) unwinds: the function returns nothing.
Panic(why) == [kind |-> "panic", why |-> why]
IsPanic(r) == r.kind = "panic"

BT601 == [name |-> "BT.601", kr |-> RDec(299, 1000), kb |-> RDec(114, 1000)]
BT709 == [name |-> "BT.709", kr |-> RDec(2126, 10000), kb |-> RDec(722, 10000)]

\* a faulty conversion to u8 that wraps modulo 256 where it should saturate
clamp_u8_wrapping(v) == RRound(v) % 256

\* v.round().clamp(0.0, 255.0) as u8
clamp_u8(v) ==
    LET rounded == RRound(v)
    IN  IF rounded < 0 THEN 0 ELSE IF rounded > 255 THEN 255 ELSE rounded

\* faulty range parameters: the limited range whatever the flag says
RangeParamsLimited(full_range) == [y_offset |-> 16, y_scale |-> 219, uv_scale |-> 224]

\* (y_offset, y_scale, uv_scale)
RangeParams(full_range) ==
    IF full_range THEN [y_offset |-> 0, y_scale |-> 255, uv_scale |-> 255]
                  ELSE [y_offset |-> 16, y_scale |-> 219, uv_scale |-> 224]

\* The body of the pixel loop: the luma byte yb and the chroma bytes ub, vb of
\* one pixel to its <<r, g, b>>.  The f64 expressions are evaluated exactly; the
\* exact value and the f64 value round to the same byte for every byte triple
\* except the exact halves of the blue channel at ub = 3 and ub = 253 (BT.601,
\* full range: 1.772 * 125 = 221.5), which the frames of this model never hold.
ConvertPixel(matrix, full_range, yb, ub, vb) ==
    LET rp     == RangeParams(full_range)
        one    == RInt(1)
        two    == RInt(2)
        kg     == RSub(RSub(one, matrix.kr), matrix.kb)
        y_f    == RDiv(RSub(RInt(yb), RInt(rp.y_offset)), RInt(rp.y_scale))
        cb_f   == RDiv(RSub(RInt(ub), RInt(128)), RInt(rp.uv_scale))
        cr_f   == RDiv(RSub(RInt(vb), RInt(128)), RInt(rp.uv_scale))
        r_f    == RAdd(y_f, RMul(RMul(two, RSub(one, matrix.kr)), cr_f))
        g_f    == RSub(RSub(y_f,
                   RMul(RDiv(RMul(RMul(two, RSub(one, matrix.kb)), matrix.kb), kg), cb_f)),
                   RMul(RDiv(RMul(RMul(two, RSub(one, matrix.kr)), matrix.kr), kg), cr_f))
        b_f    == RAdd(y_f, RMul(RMul(two, RSub(one, matrix.kb)), cb_f))
    IN  << clamp_u8(RMul(r_f, RInt(255))),
           clamp_u8(RMul(g_f, RInt(255))),
           clamp_u8(RMul(b_f, RInt(255))) >>

\* The byte values the frames of the model are made of
LumaValues == {0, 16, 128, 235, 255}
ChromaValues == {0, 128, 255}

\* ConvertPixel, tabulated once over those byte values
PixelTable ==
    [k \in {BT601.name, BT709.name} \X BOOLEAN \X LumaValues \X ChromaValues \X ChromaValues |->
        ConvertPixel(IF k[1] = BT601.name THEN BT601 ELSE BT709, k[2], k[3], k[4], k[5])]
    @@ [k \in {} |-> <<>>]

\* a faulty pixel: Cb and Cr exchanged
PixelRgbSwapped(matrix, full_range, yb, ub, vb) ==
    PixelTable[<<matrix.name, full_range, yb, vb, ub>>]

PixelRgb(matrix, full_range, yb, ub, vb) ==
    PixelTable[<<matrix.name, full_range, yb, ub, vb>>]

\* a faulty uv_idx that advances with every column
UvIdxPerColumn(w, row, col) == (row \div 2) * w + col

\* uv_idx of the pixel at (row, col), 0-based in the UV plane
UvIdx(w, row, col) == (row \div 2) * w + (col \div 2) * 2

\* nv12_to_rgb24: the RGB24 buffer, or the panic of the first slice or index out
\* of range.  data is 1-based here, so data[i + 1] is the code's data[i].
nv12_to_rgb24(data, width, height, matrix, full_range) ==
    IF BLess(Big(Len(data)), BMul(Big(width), Big(height)))
    THEN Panic("slice end out of range")              \* &data[..w * h]
    ELSE
    LET w == width
        h == height
        y_plane  == SubSeq(data, 1, w * h)
        uv_plane == SubSeq(data, w * h + 1, Len(data))
        Px == {<<row, col>> : row \in 0..(h - 1), col \in 0..(w - 1)}
    IN  IF \E px \in Px : UvIdx(w, px[1], px[2]) + 1 >= Len(uv_plane)
        THEN Panic("index out of bounds")              \* uv_plane[uv_idx (+ 1)]
        ELSE [kind |-> "ok",
              rgb  |-> [i \in 1..(w * h * 3) |->
                          LET y_idx  == (i - 1) \div 3
                              row    == y_idx \div w
                              col    == y_idx % w
                              uv_idx == UvIdx(w, row, col)
                          IN  PixelRgb(matrix, full_range,
                                       y_plane[y_idx + 1],
                                       uv_plane[uv_idx + 1],
                                       uv_plane[uv_idx + 2])[((i - 1) % 3) + 1]]]

\* ------------------------------------------------------------------------
\* u32 arithmetic.  A build with overflow checks (the debug profile) panics on
\* overflow, a build without them (the release profile) wraps modulo 2^32.
\* ------------------------------------------------------------------------
TwoTo32 == <<0, 0, 0, 0, 1>>

\* the u32 operation panicked
Overflow == <<-1>>

U32(overflow_checks, exact) ==
    IF Fits32(exact) THEN exact
    ELSE IF overflow_checks THEN Overflow ELSE Wrap32(exact)

U32Mul(overflow_checks, a, b) ==
    IF a = Overflow \/ b = Overflow THEN Overflow
    ELSE U32(overflow_checks, BMul(a, b))

U32Add(overflow_checks, a, b) ==
    IF a = Overflow \/ b = Overflow THEN Overflow
    ELSE U32(overflow_checks, BAdd(a, b))

U32Sub(overflow_checks, a, b) ==
    IF a = Overflow \/ b = Overflow THEN Overflow
    ELSE IF BLeq(b, a) THEN BSub(a, b)
    ELSE IF overflow_checks THEN Overflow
    ELSE BSub(BAdd(a, TwoTo32), b)

\* x & !3
AndNot3(a) ==
    IF a = Overflow \/ a = <<>> THEN a
    ELSE Norm([a EXCEPT ![1] = a[1] - (a[1] % 4)])

\* -(height as i32) as the u32 with the same bits; negating i32::MIN overflows
NegI32(overflow_checks, height) ==
    IF height = <<>> THEN <<>>
    ELSE IF height = <<0, 0, 0, 128>>
         THEN IF overflow_checks THEN Overflow ELSE height
    ELSE BSub(TwoTo32, height)

\* to_le_bytes of a u32 and of a u16
LE32(a) == <<Digit(a, 1), Digit(a, 2), Digit(a, 3), Digit(a, 4)>>
LE16(a) == <<Digit(a, 1), Digit(a, 2)>>

\* ------------------------------------------------------------------------
\* src/main.rs: mirror_rgb
\* ------------------------------------------------------------------------
\* a faulty swap: the byte at i is overwritten and the byte at j kept
SwapOverwrite(s, i, j) == [s EXCEPT ![i + 1] = s[j + 1]]

\* slice.swap(i, j), 0-based
Swap(s, i, j) == [s EXCEPT ![i + 1] = s[j + 1], ![j + 1] = s[i + 1]]

\* a faulty row loop: for col in from..w, which swaps every pair back again
RECURSIVE MirrorRowWhole(_, _, _)
MirrorRowWhole(row_slice, w, col) ==
    IF col >= w THEN row_slice
    ELSE LET l == col * 3
             r == (w - 1 - col) * 3
         IN  MirrorRowWhole(Swap(Swap(Swap(row_slice, l, r), l + 1, r + 1), l + 2, r + 2),
                            w, col + 1)

\* for col in from..w / 2: swap pixel [col] with pixel [w - 1 - col]
RECURSIVE MirrorRow(_, _, _)
MirrorRow(row_slice, w, col) ==
    IF col >= w \div 2 THEN row_slice
    ELSE LET l == col * 3
             r == (w - 1 - col) * 3
         IN  MirrorRow(Swap(Swap(Swap(row_slice, l, r), l + 1, r + 1), l + 2, r + 2),
                       w, col + 1)

\* for row in from..height
RECURSIVE MirrorRows(_, _, _, _)
MirrorRows(data, w, height, row) ==
    IF row >= height THEN [kind |-> "ok", data |-> data]
    ELSE LET row_bytes == w * 3
             start     == row * row_bytes
         IN  IF start + row_bytes > Len(data)
             THEN Panic("slice end out of range")      \* &mut data[start..start + row_bytes]
             ELSE MirrorRows(SubSeq(data, 1, start)
                                \o MirrorRow(SubSeq(data, start + 1, start + row_bytes), w, 0)
                                \o SubSeq(data, start + row_bytes + 1, Len(data)),
                             w, height, row + 1)

mirror_rgb(data, width, height) == MirrorRows(data, width, height, 0)

\* ------------------------------------------------------------------------
\* src/bmp.rs
\* ------------------------------------------------------------------------
FileHeaderSize == 14
InfoHeaderSize == 40
PelsPerMeter == 2835

\* A byte buffer.  A buffer of gigabytes is not held byte by byte: of such a
\* buffer the model keeps the length only (known = FALSE).
Known(bytes) == [known |-> TRUE, len |-> Big(Len(bytes)), bytes |-> bytes]
Opaque(len) == [known |-> FALSE, len |-> len, bytes |-> <<>>]

\* the 14-byte file header
FileHeader(file_size) ==
    <<66, 77>> \o LE32(file_size) \o LE16(Big(0)) \o LE16(Big(0))
               \o LE32(Big(FileHeaderSize + InfoHeaderSize))

\* the BITMAPINFOHEADER
InfoHeader(width, neg_height, pixel_data_size) ==
    LE32(Big(InfoHeaderSize)) \o LE32(width) \o LE32(neg_height)
        \o LE16(Big(1)) \o LE16(Big(24)) \o LE32(Big(0)) \o LE32(pixel_data_size)
        \o LE32(Big(PelsPerMeter)) \o LE32(Big(PelsPerMeter))
        \o LE32(Big(0)) \o LE32(Big(0))

\* a faulty pixel: the channels in the order of the input, red first
BmpPixelRgb(rgb_data, src) == <<rgb_data[src + 1], rgb_data[src + 2], rgb_data[src + 3]>>

\* one pixel of the pixel data: rgb_data[src + 2], [src + 1], [src]
BmpPixel(rgb_data, src) == <<rgb_data[src + 3], rgb_data[src + 2], rgb_data[src + 1]>>

\* for col in from..width: the pixels of one row
RECURSIVE BmpRow(_, _, _, _)
BmpRow(rgb_data, width, row, col) ==
    IF col >= width THEN <<>>
    ELSE BmpPixel(rgb_data, (row * width + col) * 3) \o BmpRow(rgb_data, width, row, col + 1)

\* for row in from..height: the rows, each followed by its padding
RECURSIVE BmpRows(_, _, _, _, _)
BmpRows(rgb_data, width, height, pad_bytes, row) ==
    IF row >= height THEN <<>>
    ELSE BmpRow(rgb_data, width, row, 0) \o [i \in 1..pad_bytes |-> 0]
            \o BmpRows(rgb_data, width, height, pad_bytes, row + 1)

\* The buffer write_bmp hands to std::fs::write, or its panic.  width and height
\* are below 2^31.  buf.head is the two headers, buf.body the pixel data and
\* buf.size the number of bytes of the whole buffer; the body of a buffer built
\* from an opaque rgb_data is not held.
write_bmp(width, height, rgb_data, overflow_checks) ==
    LET c == overflow_checks
        w == Big(width)
        h == Big(height)
        width3          == U32Mul(c, w, Big(3))
        row_stride      == AndNot3(U32Add(c, width3, Big(3)))
        pixel_data_size == U32Mul(c, row_stride, h)
        file_size       == U32Add(c, Big(FileHeaderSize + InfoHeaderSize), pixel_data_size)
        neg_height      == NegI32(c, h)
        pad             == U32Sub(c, row_stride, width3)
        pad_bytes       == ToInt(pad)
        head            == FileHeader(file_size) \o InfoHeader(w, neg_height, pixel_data_size)
        row_len         == BAdd(BMulSmall(w, 3), pad)
    IN  IF file_size = Overflow \/ neg_height = Overflow \/ pad = Overflow
        THEN Panic("arithmetic overflow")
        ELSE IF width > 0 /\ height > 0 /\ BLess(rgb_data.len, BMulSmall(BMul(w, h), 3))
        THEN Panic("index out of bounds")              \* rgb_data[src (+ 1, + 2)]
        ELSE IF rgb_data.known
        THEN LET body == BmpRows(rgb_data.bytes, width, height, pad_bytes, 0)
             IN  [kind |-> "ok", known |-> TRUE, head |-> head, body |-> body,
                  size |-> Big(Len(head) + Len(body))]
        ELSE [kind |-> "ok", known |-> FALSE, head |-> head, body |-> <<>>,
              size |-> BAdd(Big(Len(head)), BMul(h, row_len))]

\* ------------------------------------------------------------------------
\* State
\* ------------------------------------------------------------------------
VARIABLES
    pc,         \* the position of run_capture_test, or of the call under study
    profile,    \* "debug" (overflow checks) or "release" (wrapping arithmetic)
    mirror,     \* the mirror argument of run_capture_test
    frame,      \* the CapturedFrame
    rgb_601,    \* the BT.601 conversion of the frame
    rgb_709,    \* the BT.709 conversion of the frame
    files,      \* the files written so far, in order
    result,     \* what run_capture_test returned
    log,        \* the steps run_capture_test has taken, in order
    args,       \* the arguments of a call of one function on its own
    ret         \* what that call returned

vars == <<pc, profile, mirror, frame, rgb_601, rgb_709, files, result, log, args, ret>>

OverflowChecks == profile = "debug"

NoFrame ==
    [width |-> 0, height |-> 0, pixel_format |-> "", full_range |-> FALSE, data |-> <<>>]

Running == [kind |-> "running"]
Ok == [kind |-> "ok"]
\* Command::CaptureTest as parse_args builds it: --mirror and --save-raw each
\* given or not (the device number and the resolution go to capture_frame)
CaptureTestCommands ==
    { [fn |-> "run_capture_test", mirror |-> m, save_raw |-> s] : m, s \in BOOLEAN }
NoReturn == [kind |-> "none"]

\* ------------------------------------------------------------------------
\* Inputs
\* ------------------------------------------------------------------------
Widths == 1..MaxWidth
Heights == 1..MaxHeight

\* floor(width * height * 3 / 2) for the small frames
Nv12Size(w, h) == (w * h * 3) \div 2

\* the least length that holds every byte nv12_to_rgb24 reads: the Y plane and
\* the chroma pair of the last pixel
CoveringSize(w, h) == w * h + UvIdx(w, h - 1, w - 1) + 2

DataSizes(w, h) ==
    {Nv12Size(w, h) - 1, Nv12Size(w, h), Nv12Size(w, h) + 1, CoveringSize(w, h)}

\* frame contents: a luma sequence and a chroma sequence, each repeated
Contents ==
    { [luma |-> <<128>>, chroma |-> <<128>>],
      [luma |-> <<128>>, chroma |-> <<0, 255, 128>>],
      [luma |-> <<16, 128, 235, 0, 255>>, chroma |-> <<0, 255, 128>>] }

Nv12Data(w, h, size, content) ==
    [i \in 1..size |->
        IF i <= w * h
        THEN content.luma[((i - 1) % Len(content.luma)) + 1]
        ELSE content.chroma[((i - w * h - 1) % Len(content.chroma)) + 1]]

PixelFormats == {"NV12", "YUY2", "MJPG"}

\* what capture_frame can hand back: a frame of the platform's CapturedFrame
\* type.  The small frames carry data; the one large frame has the dimensions at
\* which width * height no longer fits a u32, and no data.
SmallFrames ==
    UNION { { [width |-> w, height |-> h, pixel_format |-> pf, full_range |-> fr,
               data |-> Nv12Data(w, h, size, content)] :
                 pf \in PixelFormats, fr \in BOOLEAN, content \in Contents,
                 size \in DataSizes(w, h) } :
            w \in Widths, h \in Heights }

LargeFrames ==
    { [width |-> 2^16, height |-> 2^16, pixel_format |-> "NV12", full_range |-> fr,
       data |-> <<>>] : fr \in BOOLEAN }

Frames == SmallFrames \cup LargeFrames

\* ------------------------------------------------------------------------
\* src/main.rs: run_capture_test
\* ------------------------------------------------------------------------
CaptureError == [kind |-> "err", error |-> "capture_frame failed"]

\* a faulty format check that lets every format through
FormatNeverRejected(captured) == FALSE

\* frame.pixel_format != "NV12"
FormatRejected(captured) == captured.pixel_format # "NV12"

\* a faulty error that names the expected format in place of the frame's
UnexpectedFormatUnnamed(captured) ==
    [kind |-> "err", error |-> "Expected NV12 pixel format", got |-> "NV12"]

\* "Expected NV12 pixel format, got {}. Cannot decode."
UnexpectedFormat(captured) ==
    [kind |-> "err", error |-> "Expected NV12 pixel format", got |-> captured.pixel_format]

\* (frame.width * frame.height * 3 / 2) as usize, in u32
expected_size(captured, overflow_checks) ==
    LET product == U32Mul(overflow_checks,
                          U32Mul(overflow_checks, Big(captured.width), Big(captured.height)),
                          Big(3))
    IN  IF product = Overflow THEN Overflow ELSE BDivSmall(product, 2)

\* "Buffer too small: got {} bytes, expected at least {} for NV12 {}x{}"
BufferTooSmall(captured, expected) ==
    [kind |-> "err", error |-> "Buffer too small", got |-> Big(Len(captured.data)),
     expected |-> expected, width |-> captured.width, height |-> captured.height]

\* the error of std::fs::write
IoError == [kind |-> "err", error |-> "io"]

\* main: Command::CaptureTest { device_index, resolution, mirror } =>
\* run_capture_test(device_index, resolution, mirror)
Init ==
    /\ pc = "capture"
    /\ profile \in {"debug", "release"}
    /\ args \in CaptureTestCommands
    /\ mirror = args.mirror
    /\ frame = NoFrame
    /\ rgb_601 = <<>>
    /\ rgb_709 = <<>>
    /\ files = <<>>
    /\ result = Running
    /\ log = <<>>
    /\ ret = NoReturn

\* platform::capture_frame(device_index, resolution)? returns a frame
CaptureOk ==
    /\ pc = "capture"
    /\ \E captured \in Frames : frame' = captured
    /\ pc' = "check_format"
    /\ log' = Append(log, "capture_frame")
    /\ UNCHANGED <<profile, mirror, rgb_601, rgb_709, files, result, args, ret>>

\* platform::capture_frame(device_index, resolution)? returns an error
CaptureFails ==
    /\ pc = "capture"
    /\ result' = CaptureError
    /\ pc' = "done"
    /\ log' = Append(log, "capture_frame")
    /\ UNCHANGED <<profile, mirror, frame, rgb_601, rgb_709, files, args, ret>>

\* if frame.pixel_format != "NV12" { bail }
CheckFormat ==
    /\ pc = "check_format"
    /\ log' = Append(log, "check_format")
    /\ IF FormatRejected(frame)
       THEN result' = UnexpectedFormat(frame) /\ pc' = "done"
       ELSE pc' = "check_size" /\ UNCHANGED result
    /\ UNCHANGED <<profile, mirror, frame, rgb_601, rgb_709, files, args, ret>>

\* let expected_size = ...; if frame.data.len() < expected_size { bail }
CheckSize ==
    /\ pc = "check_size"
    /\ log' = Append(log, "check_size")
    /\ LET expected == expected_size(frame, OverflowChecks)
       IN  IF expected = Overflow
           THEN result' = Panic("arithmetic overflow") /\ pc' = "done"
           ELSE IF BLess(Big(Len(frame.data)), expected)
           THEN result' = BufferTooSmall(frame, expected) /\ pc' = "done"
           ELSE pc' = "decode_601" /\ UNCHANGED result
    /\ UNCHANGED <<profile, mirror, frame, rgb_601, rgb_709, files, args, ret>>

\* let mut rgb_601 = yuv::nv12_to_rgb24(.., matrices[0], ..)
Decode601 ==
    /\ pc = "decode_601"
    /\ log' = Append(log, "nv12_to_rgb24 BT.601")
    /\ LET converted == nv12_to_rgb24(frame.data, frame.width, frame.height,
                                      BT601, frame.full_range)
       IN  IF IsPanic(converted)
           THEN result' = converted /\ pc' = "done" /\ UNCHANGED rgb_601
           ELSE rgb_601' = converted.rgb /\ pc' = "decode_709" /\ UNCHANGED result
    /\ UNCHANGED <<profile, mirror, frame, rgb_709, files, args, ret>>

\* a faulty second decode that uses the first matrix again
Decode709WithBT601 ==
    /\ pc = "decode_709"
    /\ log' = Append(log, "nv12_to_rgb24 BT.709")
    /\ LET converted == nv12_to_rgb24(frame.data, frame.width, frame.height,
                                      BT601, frame.full_range)
       IN  IF IsPanic(converted)
           THEN result' = converted /\ pc' = "done" /\ UNCHANGED rgb_709
           ELSE rgb_709' = converted.rgb /\ pc' = "mirror" /\ UNCHANGED result
    /\ UNCHANGED <<profile, mirror, frame, rgb_601, files, args, ret>>

\* let mut rgb_709 = yuv::nv12_to_rgb24(.., matrices[1], ..)
Decode709 ==
    /\ pc = "decode_709"
    /\ log' = Append(log, "nv12_to_rgb24 BT.709")
    /\ LET converted == nv12_to_rgb24(frame.data, frame.width, frame.height,
                                      BT709, frame.full_range)
       IN  IF IsPanic(converted)
           THEN result' = converted /\ pc' = "done" /\ UNCHANGED rgb_709
           ELSE rgb_709' = converted.rgb /\ pc' = "mirror" /\ UNCHANGED result
    /\ UNCHANGED <<profile, mirror, frame, rgb_601, files, args, ret>>

\* if mirror { mirror_rgb(&mut rgb_601, ..); mirror_rgb(&mut rgb_709, ..); }
MirrorBoth ==
    /\ pc = "mirror"
    /\ IF mirror
       THEN LET m601 == mirror_rgb(rgb_601, frame.width, frame.height)
                m709 == mirror_rgb(rgb_709, frame.width, frame.height)
            IN  /\ log' = Append(log, "mirror_rgb")
                /\ IF IsPanic(m601) \/ IsPanic(m709)
                   THEN /\ result' = (IF IsPanic(m601) THEN m601 ELSE m709)
                        /\ pc' = "done"
                        /\ UNCHANGED <<rgb_601, rgb_709>>
                   ELSE /\ rgb_601' = m601.data
                        /\ rgb_709' = m709.data
                        /\ pc' = "write_601"
                        /\ UNCHANGED result
       ELSE pc' = "write_601" /\ UNCHANGED <<rgb_601, rgb_709, result, log>>
    /\ UNCHANGED <<profile, mirror, frame, files, args, ret>>

\* a faulty caller that drops the error of a failed write and carries on
WriteFileIgnoringError(at, path, rgb, next) ==
    /\ pc = at
    /\ log' = Append(log, "write_bmp " \o path)
    /\ LET buf == write_bmp(frame.width, frame.height, Known(rgb), OverflowChecks)
       IN  IF IsPanic(buf)
           THEN result' = buf /\ pc' = "done" /\ UNCHANGED files
           ELSE /\ \/ files' = Append(files, [path |-> path, buf |-> buf])
                   \/ UNCHANGED files
                /\ pc' = next
                /\ result' = (IF next = "done" THEN Ok ELSE result)
    /\ UNCHANGED <<profile, mirror, frame, rgb_601, rgb_709, args, ret>>

\* bmp::write_bmp(path, frame.width, frame.height, rgb)? from position at: the
\* buffer is written and the run goes on to position next, or the write fails
WriteFile(at, path, rgb, next) ==
    /\ pc = at
    /\ log' = Append(log, "write_bmp " \o path)
    /\ LET buf == write_bmp(frame.width, frame.height, Known(rgb), OverflowChecks)
       IN  IF IsPanic(buf)
           THEN result' = buf /\ pc' = "done" /\ UNCHANGED files
           ELSE \/ /\ files' = Append(files, [path |-> path, buf |-> buf])
                   /\ pc' = next
                   /\ result' = (IF next = "done" THEN Ok ELSE result)
                \/ /\ result' = IoError
                   /\ pc' = "done"
                   /\ UNCHANGED files
    /\ UNCHANGED <<profile, mirror, frame, rgb_601, rgb_709, args, ret>>

Write601 == WriteFile("write_601", "capture_bt601.bmp", rgb_601, "write_709")

Write709 == WriteFile("write_709", "capture_bt709.bmp", rgb_709, "done")

Next ==
    \/ CaptureOk
    \/ CaptureFails
    \/ CheckFormat
    \/ CheckSize
    \/ Decode601
    \/ Decode709
    \/ MirrorBoth
    \/ Write601
    \/ Write709

Spec == Init /\ [][Next]_vars

\* ------------------------------------------------------------------------
\* nv12_to_rgb24 on its own
\* ------------------------------------------------------------------------
YuvArgs ==
    UNION { { [data |-> Nv12Data(w, h, size, content), width |-> w, height |-> h,
               matrix |-> m, full_range |-> fr] :
                 m \in {BT601, BT709}, fr \in BOOLEAN, content \in Contents,
                 size \in DataSizes(w, h) } :
            w \in Widths, h \in Heights }

Idle ==
    /\ profile \in {"debug", "release"}
    /\ mirror = FALSE
    /\ frame = NoFrame
    /\ rgb_601 = <<>>
    /\ rgb_709 = <<>>
    /\ files = <<>>
    /\ result = Running
    /\ log = <<>>

InitYuv ==
    /\ pc = "call"
    /\ args \in YuvArgs
    /\ ret = NoReturn
    /\ Idle

\* a faulty call that converts in place: the Y plane of data is overwritten
\* with the red channel
Nv12ToRgb24InPlace ==
    /\ pc = "call"
    /\ LET converted == nv12_to_rgb24(args.data, args.width, args.height,
                                      args.matrix, args.full_range)
       IN  /\ ret' = converted
           /\ args' = IF IsPanic(converted) THEN args
                      ELSE [args EXCEPT !.data =
                              [i \in 1..Len(args.data) |->
                                  IF i <= args.width * args.height
                                  THEN converted.rgb[(i - 1) * 3 + 1]
                                  ELSE args.data[i]]]
    /\ pc' = "returned"
    /\ UNCHANGED <<profile, mirror, frame, rgb_601, rgb_709, files, result, log>>

\* nv12_to_rgb24(&data, width, height, matrix, full_range)
Nv12ToRgb24 ==
    /\ pc = "call"
    /\ ret' = nv12_to_rgb24(args.data, args.width, args.height, args.matrix, args.full_range)
    /\ pc' = "returned"
    /\ UNCHANGED <<profile, mirror, frame, rgb_601, rgb_709, files, result, log, args>>

\* the same call once more, with the same arguments
Nv12ToRgb24Again ==
    /\ pc = "returned"
    /\ ret' = nv12_to_rgb24(args.data, args.width, args.height, args.matrix, args.full_range)
    /\ pc' = "repeated"
    /\ UNCHANGED <<profile, mirror, frame, rgb_601, rgb_709, files, result, log, args>>

NextYuv == Nv12ToRgb24 \/ Nv12ToRgb24Again

SpecYuv == InitYuv /\ [][NextYuv]_vars

\* ------------------------------------------------------------------------
\* mirror_rgb on its own, applied once and then once more
\* ------------------------------------------------------------------------
\* buffer contents: byte i is first + step * i modulo 256
RgbData(size, first, step) == [i \in 1..size |-> (first + step * i) % 256]

RgbContents == {<<0, 1>>, <<250, 1>>, <<7, 37>>, <<128, 0>>}

MirrorArgs ==
    UNION { { [data |-> RgbData(size, content[1], content[2]), width |-> w, height |-> h] :
                 content \in RgbContents,
                 size \in {w * h * 3 - 1, w * h * 3, w * h * 3 + 1} } :
            w \in Widths, h \in Heights }

InitMirror ==
    /\ pc = "call"
    /\ args \in MirrorArgs
    /\ ret = NoReturn
    /\ Idle

MirrorOnce ==
    /\ pc = "call"
    /\ ret' = mirror_rgb(args.data, args.width, args.height)
    /\ pc' = "once"
    /\ UNCHANGED <<profile, mirror, frame, rgb_601, rgb_709, files, result, log, args>>

MirrorAgain ==
    /\ pc = "once"
    /\ ~IsPanic(ret)
    /\ ret' = mirror_rgb(ret.data, args.width, args.height)
    /\ pc' = "twice"
    /\ UNCHANGED <<profile, mirror, frame, rgb_601, rgb_709, files, result, log, args>>

NextMirror == MirrorOnce \/ MirrorAgain

SpecMirror == InitMirror /\ [][NextMirror]_vars

\* ------------------------------------------------------------------------
\* write_bmp on its own
\* ------------------------------------------------------------------------
\* the images of gigabytes: width 1 or 2 and 2^30 or 2^29 rows, rgb_data of
\* width * height * 3 bytes
LargeImages ==
    { [width |-> 1, height |-> 2^30, rgb_data |-> Opaque(BMulSmall(Big(2^30), 3))],
      [width |-> 2, height |-> 2^29, rgb_data |-> Opaque(BMulSmall(Big(2^30), 3))] }

BmpArgs ==
    UNION { { [width |-> w, height |-> h,
               rgb_data |-> Known(RgbData(size, content[1], content[2]))] :
                 content \in RgbContents,
                 size \in {w * h * 3 - 1, w * h * 3, w * h * 3 + 1} } :
            w \in Widths, h \in Heights }
    \cup LargeImages

InitBmp ==
    /\ pc = "call"
    /\ args \in BmpArgs
    /\ ret = NoReturn
    /\ Idle

\* write_bmp(path, width, height, rgb_data): a panic, or the buffer is written
\* and Ok(()) returned, or std::fs::write fails and its error is returned
WriteBmp ==
    /\ pc = "call"
    /\ pc' = "returned"
    /\ LET buf == write_bmp(args.width, args.height, args.rgb_data, OverflowChecks)
       IN  IF IsPanic(buf)
           THEN ret' = buf /\ UNCHANGED files
           ELSE \/ files' = Append(files, [path |-> "out.bmp", buf |-> buf]) /\ ret' = Ok
                \/ ret' = IoError /\ UNCHANGED files
    /\ UNCHANGED <<profile, mirror, frame, rgb_601, rgb_709, result, log, args>>

NextBmp == WriteBmp

SpecBmp == InitBmp /\ [][NextBmp]_vars

\* ------------------------------------------------------------------------
\* Properties
\* ------------------------------------------------------------------------
\* run_capture_test has taken the step
Taken(step) == \E i \in DOMAIN log : log[i] = step

\* every occurrence of the step later comes after an occurrence of earlier
Precedes(earlier, later) ==
    \A i \in DOMAIN log : log[i] = later => \E j \in 1..(i - 1) : log[j] = earlier

Conversions == {"nv12_to_rgb24 BT.601", "nv12_to_rgb24 BT.709"}
Writes == {"write_bmp capture_bt601.bmp", "write_bmp capture_bt709.bmp"}

\* floor(width * height * 3 / 2) of a frame, without any wrapping
ExactNv12Size(captured) ==
    BDivSmall(BMulSmall(BMul(Big(captured.width), Big(captured.height)), 3), 2)

\* (width * 3 + 3) & ~3 without any wrapping, and the same as an integer
ExactRowStride(width) == AndNot3(BAdd(BMulSmall(Big(width), 3), Big(3)))
RowStride(width) == ((width * 3 + 3) \div 4) * 4

\* 54 + rowStride * height without any wrapping
ExactFileSize(width, height) ==
    BAdd(Big(54), BMul(ExactRowStride(width), Big(height)))

\* the call of write_bmp returned Ok(()) and the file is there
BmpWritten == pc = "returned" /\ ret = Ok /\ Len(files) = 1

\* the call was made with an rgb buffer of width * height * 3 bytes
RgbSizeMatches ==
    args.rgb_data.len = BMulSmall(BMul(Big(args.width), Big(args.height)), 3)

\* C1: for width > 0, height > 0 and a buffer of exactly width*height*3/2 bytes,
\* nv12_to_rgb24 completes (no read outside the buffer) and returns a buffer of
\* exactly width*height*3 bytes.
C1_ExactBufferConverts ==
    (/\ pc = "returned"
     /\ args.width > 0
     /\ args.height > 0
     /\ Len(args.data) = (args.width * args.height * 3) \div 2)
    => (ret.kind = "ok" /\ Len(ret.rgb) = args.width * args.height * 3)

\* C2: a captured NV12 frame whose data is shorter than width*height*3/2 makes
\* the run fail with the buffer-too-small error that reports the actual and the
\* required size, and nv12_to_rgb24 is never called on it.
C2_ShortFrameRejected ==
    (/\ pc \notin {"capture", "check_format", "check_size"}
     /\ frame.pixel_format = "NV12"
     /\ BLess(Big(Len(frame.data)), ExactNv12Size(frame)))
    => (/\ pc = "done"
        /\ result.kind = "err"
        /\ result.error = "Buffer too small"
        /\ result.got = Big(Len(frame.data))
        /\ result.expected = ExactNv12Size(frame)
        /\ \A step \in Conversions : ~Taken(step))

\* C3: a captured frame whose pixel_format is not "NV12" makes the run fail with
\* the error that names that format; the format check comes before the size
\* check and before any conversion, neither of which such a run reaches.
C3_UnexpectedFormatRejected ==
    /\ Precedes("check_format", "check_size")
    /\ \A step \in Conversions : Precedes("check_format", step)
    /\ (/\ pc \notin {"capture", "check_format"}
        /\ frame # NoFrame
        /\ frame.pixel_format # "NV12")
       => (/\ pc = "done"
           /\ result.kind = "err"
           /\ result.error = "Expected NV12 pixel format"
           /\ result.got = frame.pixel_format
           /\ ~Taken("check_size")
           /\ \A step \in Conversions : ~Taken(step))

\* a run rejected a YUY2 frame
C3_Witness ==
    /\ pc = "done"
    /\ frame.pixel_format = "YUY2"
    /\ result.kind = "err"
    /\ result.got = "YUY2"
    /\ Taken("check_format")
    /\ ~Taken("check_size")

\* C4: no file is written before the format check and the size check have both
\* passed, and a run that failed with the unexpected-format or the
\* buffer-too-small error has written nothing.
C4_NoWriteBeforeChecks ==
    /\ \A step \in Writes :
          /\ Precedes("check_format", step)
          /\ Precedes("check_size", step)
          /\ Taken(step) =>
                /\ frame.pixel_format = "NV12"
                /\ BLeq(ExactNv12Size(frame), Big(Len(frame.data)))
    /\ files # <<>> => \E step \in Writes : Taken(step)
    /\ (result.kind = "err" /\ result.error \in {"Expected NV12 pixel format", "Buffer too small"})
       => (files = <<>> /\ \A step \in Writes : ~Taken(step))

\* a run that passed both checks wrote its two files
C4_Witness ==
    /\ pc = "done"
    /\ result = Ok
    /\ Len(files) = 2
    /\ Taken("check_format")
    /\ Taken("check_size")

\* C5: write_bmp called with an rgb buffer whose length is not width*height*3,
\* shorter or longer, fails and produces no file.
C5_SizeMismatchFails ==
    (pc = "returned" /\ ~RgbSizeMatches) => (ret.kind # "ok" /\ files = <<>>)

\* C6: for an rgb buffer of width*height*3 bytes the buffer write_bmp assembles
\* has 54 + rowStride*height bytes, and its first 14 bytes are "BM", that length
\* as a little-endian u32, two zero u16 fields and 54 as a little-endian u32.
C6_FileHeader ==
    (BmpWritten /\ RgbSizeMatches)
    => LET buf  == files[1].buf
           size == ExactFileSize(args.width, args.height)
       IN  /\ buf.size = size
           /\ Fits32(size)
           /\ SubSeq(buf.head, 1, 14) =
                <<66, 77>> \o LE32(size) \o <<0, 0>> \o <<0, 0>> \o <<54, 0, 0, 0>>

\* C7: bytes 14..53 of the buffer write_bmp assembles are header size 40, the
\* width, the negative of the height as a signed 32-bit integer, planes 1, bits
\* per pixel 24, compression 0, the image data size rowStride*height, 2835 and
\* 2835, 0 and 0, all little-endian; the two headers end at byte 54.
C7_InfoHeader ==
    BmpWritten
    => LET buf   == files[1].buf
           image == BMul(ExactRowStride(args.width), Big(args.height))
       IN  /\ Len(buf.head) = 54
           /\ Fits32(image)
           /\ SubSeq(buf.head, 15, 54) =
                <<40, 0, 0, 0>>
                \o LE32(Big(args.width))
                \o LE32(BSub(TwoTo32, Big(args.height)))
                \o <<1, 0>> \o <<24, 0>>
                \o <<0, 0, 0, 0>>
                \o LE32(image)
                \o <<19, 11, 0, 0>> \o <<19, 11, 0, 0>>
                \o <<0, 0, 0, 0>> \o <<0, 0, 0, 0>>

\* C8: in the pixel data write_bmp assembles, the byte at r*rowStride + c*3 + k
\* is rgb[(r*width + c)*3 + (2 - k)], the rowStride - width*3 bytes that end
\* each row are zero, and every row takes rowStride bytes, a multiple of 4.
C8_PixelData ==
    (BmpWritten /\ files[1].buf.known)
    => LET body   == files[1].buf.body
           rgb    == args.rgb_data.bytes
           w      == args.width
           h      == args.height
           stride == RowStride(w)
       IN  /\ stride % 4 = 0
           /\ Len(body) = stride * h
           /\ \A r \in 0..(h - 1) :
                /\ \A c \in 0..(w - 1) : \A k \in 0..2 :
                      body[r * stride + c * 3 + k + 1] = rgb[(r * w + c) * 3 + (2 - k) + 1]
                /\ \A p \in (w * 3)..(stride - 1) : body[r * stride + p + 1] = 0

\* an image of width 3 and two rows or more was written: three zero bytes end
\* each row
C8_Witness ==
    /\ BmpWritten
    /\ RgbSizeMatches
    /\ args.width = 3
    /\ args.height >= 2
    /\ args.rgb_data.bytes[1] # args.rgb_data.bytes[3]
    /\ Len(files[1].buf.body) = 12 * args.height

\* C9: mirror_rgb applied twice to a buffer of width*height*3 bytes gives back
\* the buffer, byte for byte.
C9_MirrorInvolution ==
    (pc = "twice" /\ Len(args.data) = args.width * args.height * 3)
    => (ret.kind = "ok" /\ ret.data = args.data)

\* an odd-width buffer whose pixels differ was mirrored twice
C9_Witness ==
    /\ pc = "twice"
    /\ args.width = 3
    /\ Len(args.data) = args.width * args.height * 3
    /\ args.data[1] # args.data[7]
    /\ ret.kind = "ok"

\* C10: after one mirror_rgb the pixel at (r, c) is the original pixel at
\* (r, width-1-c), channel by channel; for odd width the middle column is as it
\* was.
C10_MirrorPixels ==
    (pc = "once" /\ Len(args.data) = args.width * args.height * 3)
    => /\ ret.kind = "ok"
       /\ Len(ret.data) = Len(args.data)
       /\ \A r \in 0..(args.height - 1) : \A c \in 0..(args.width - 1) : \A k \in 0..2 :
             ret.data[(r * args.width + c) * 3 + k + 1] =
                 args.data[(r * args.width + (args.width - 1 - c)) * 3 + k + 1]
       /\ args.width % 2 = 1 =>
             \A r \in 0..(args.height - 1) : \A k \in 0..2 :
                 ret.data[(r * args.width + args.width \div 2) * 3 + k + 1] =
                     args.data[(r * args.width + args.width \div 2) * 3 + k + 1]

\* a buffer of two columns or more whose pixels differ was mirrored once
C10_Witness ==
    /\ pc = "once"
    /\ args.width >= 2
    /\ args.height >= 2
    /\ Len(args.data) = args.width * args.height * 3
    /\ args.data[1] # args.data[4]
    /\ ret.kind = "ok"
    /\ ret.data # args.data

\* the call of nv12_to_rgb24 returned a buffer
Converted == pc = "returned" /\ ret.kind = "ok"

\* C11: for a full-range frame whose luma and chroma bytes are all 128,
\* nv12_to_rgb24 gives R = G = B = 128 for every pixel, with BT.601 and with
\* BT.709 alike.
C11_NeutralGray ==
    (/\ Converted
     /\ args.full_range
     /\ \A i \in DOMAIN args.data : args.data[i] = 128)
    => \A i \in DOMAIN ret.rgb : ret.rgb[i] = 128

\* a full-range 2x2 frame of bytes 128 was converted with BT.709
C11_Witness ==
    /\ Converted
    /\ args.full_range
    /\ args.matrix = BT709
    /\ args.width = 2
    /\ args.height = 2
    /\ \A i \in DOMAIN args.data : args.data[i] = 128
    /\ Len(ret.rgb) = 12
    /\ ret.rgb[1] = 128

\* the three channels before rounding, as C12 states them: luma and chroma
\* normalized, combined with kr, kb and kg = 1 - kr - kb, and scaled by 255
ScaledChannels(matrix, full_range, luma, cb, cr) ==
    LET kr  == matrix.kr
        kb  == matrix.kb
        kg  == RSub(RSub(RInt(1), kr), kb)
        yn  == IF full_range THEN RDiv(RInt(luma), RInt(255))
                             ELSE RDiv(RInt(luma - 16), RInt(219))
        cbn == RDiv(RInt(cb - 128), RInt(IF full_range THEN 255 ELSE 224))
        crn == RDiv(RInt(cr - 128), RInt(IF full_range THEN 255 ELSE 224))
        twoR == RMul(RInt(2), RSub(RInt(1), kr))
        twoB == RMul(RInt(2), RSub(RInt(1), kb))
        red   == RAdd(yn, RMul(twoR, crn))
        blue  == RAdd(yn, RMul(twoB, cbn))
        green == RSub(RSub(yn, RMul(RMul(twoB, RDiv(kb, kg)), cbn)),
                      RMul(RMul(twoR, RDiv(kr, kg)), crn))
    IN  <<RMul(red, RInt(255)), RMul(green, RInt(255)), RMul(blue, RInt(255))>>

PixelKeys ==
    {BT601.name, BT709.name} \X BOOLEAN \X LumaValues \X ChromaValues \X ChromaValues

ScaledTable ==
    [k \in PixelKeys |->
        ScaledChannels(IF k[1] = BT601.name THEN BT601 ELSE BT709, k[2], k[3], k[4], k[5])]
    @@ [k \in {} |-> <<>>]

\* the byte is the scaled value n / d rounded to nearest, whenever that value
\* lies within 0..255: 2n - d <= 2 * byte * d <= 2n + d
NearestByte(byte, scaled) ==
    (~scaled.neg /\ BLeq(scaled.n, BMulSmall(scaled.d, 255)))
    => /\ BLeq(BMulSmall(scaled.n, 2), BAdd(BMulSmall(scaled.d, 2 * byte), scaled.d))
       /\ BLeq(BMulSmall(scaled.d, 2 * byte), BAdd(BMulSmall(scaled.n, 2), scaled.d))

\* the bytes nv12_to_rgb24 converts pixel (row, col) from: luma, Cb, Cr
PixelSource(row, col) ==
    LET w == args.width
        uv == w * args.height + (row \div 2) * w + (col \div 2) * 2
    IN  <<args.data[row * w + col + 1], args.data[uv + 1], args.data[uv + 2]>>

\* the three bytes of pixel (row, col) in the returned buffer
PixelOut(row, col) ==
    LET at == (row * args.width + col) * 3
    IN  <<ret.rgb[at + 1], ret.rgb[at + 2], ret.rgb[at + 3]>>

\* C12: every pixel is luma and chroma normalized for the range, R = Y' +
\* 2(1-kr)Cr', B = Y' + 2(1-kb)Cb', G = Y' - 2(1-kb)(kb/kg)Cb' - 2(1-kr)(kr/kg)Cr',
\* scaled by 255 and rounded to nearest; limited-range luma 16 with neutral
\* chroma is (0,0,0) and luma 235 is (255,255,255).
C12_PixelFormula ==
    Converted
    => \A row \in 0..(args.height - 1) : \A col \in 0..(args.width - 1) :
          LET src    == PixelSource(row, col)
              scaled == ScaledTable[<<args.matrix.name, args.full_range,
                                      src[1], src[2], src[3]>>]
              out    == PixelOut(row, col)
          IN  /\ \A ch \in 1..3 : NearestByte(out[ch], scaled[ch])
              /\ (~args.full_range /\ src = <<16, 128, 128>>) => out = <<0, 0, 0>>
              /\ (~args.full_range /\ src = <<235, 128, 128>>) => out = <<255, 255, 255>>

\* a limited-range frame with coloured chroma was converted with BT.709, and
\* its first pixels are limited-range black next to a colour
C12_Witness ==
    /\ Converted
    /\ ~args.full_range
    /\ args.matrix = BT709
    /\ args.width = 3
    /\ args.height = 2
    /\ PixelSource(0, 0)[1] = 16
    /\ PixelSource(0, 0)[2] # 128
    /\ PixelOut(0, 0)[1] # PixelOut(0, 0)[3]

\* the scaled channels of pixel (row, col) of the converted frame
PixelScaled(row, col) ==
    LET src == PixelSource(row, col)
    IN  ScaledTable[<<args.matrix.name, args.full_range, src[1], src[2], src[3]>>]

Below0(scaled) == scaled.neg
Above255(scaled) == ~scaled.neg /\ BLess(BMulSmall(scaled.d, 255), scaled.n)

\* C13: every output channel saturates: a scaled value below 0 is stored as 0
\* and one above 255 as 255, in both ranges and with both standards; limited
\* range luma below 16 with neutral chroma gives 0, full-range luma 255 with
\* Cr 255 gives R = 255.
C13_Saturates ==
    Converted
    => \A row \in 0..(args.height - 1) : \A col \in 0..(args.width - 1) :
          LET src    == PixelSource(row, col)
              scaled == PixelScaled(row, col)
              out    == PixelOut(row, col)
          IN  /\ \A ch \in 1..3 :
                    /\ out[ch] \in 0..255
                    /\ Below0(scaled[ch]) => out[ch] = 0
                    /\ Above255(scaled[ch]) => out[ch] = 255
              /\ (~args.full_range /\ src[1] < 16 /\ src[2] = 128 /\ src[3] = 128)
                    => out = <<0, 0, 0>>
              /\ (args.full_range /\ src[1] = 255 /\ src[3] = 255) => out[1] = 255

\* a converted frame holds a channel scaled below 0 and a channel scaled above
\* 255
C13_Witness ==
    /\ Converted
    /\ \E row \in 0..(args.height - 1) : \E col \in 0..(args.width - 1) : \E ch \in 1..3 :
          Below0(PixelScaled(row, col)[ch]) /\ PixelOut(row, col)[ch] = 0
    /\ \E row \in 0..(args.height - 1) : \E col \in 0..(args.width - 1) : \E ch \in 1..3 :
          Above255(PixelScaled(row, col)[ch]) /\ PixelOut(row, col)[ch] = 255

\* C14: the pixel at row y, column x is converted with Cb at chroma offset
\* (y/2)*width + (x/2)*2 and Cr at the next byte; so for even width and height
\* the four pixels of an aligned 2x2 block share one (Cb, Cr) pair, and two
\* pixels of a block with equal luma get equal RGB.
C14_ChromaSharing ==
    Converted
    => LET Rows == 0..(args.height - 1)
           Cols == 0..(args.width - 1)
       IN  /\ \A row \in Rows : \A col \in Cols :
                 LET src == PixelSource(row, col)
                 IN  PixelOut(row, col) =
                        PixelTable[<<args.matrix.name, args.full_range, src[1], src[2], src[3]>>]
           /\ (args.width % 2 = 0 /\ args.height % 2 = 0)
              => \A r1 \in Rows : \A c1 \in Cols : \A r2 \in Rows : \A c2 \in Cols :
                    (r1 \div 2 = r2 \div 2 /\ c1 \div 2 = c2 \div 2)
                    => LET s1 == PixelSource(r1, c1)
                           s2 == PixelSource(r2, c2)
                       IN  /\ s1[2] = s2[2]
                           /\ s1[3] = s2[3]
                           /\ s1[1] = s2[1] => PixelOut(r1, c1) = PixelOut(r2, c2)

\* a frame of width 4 and even height with coloured chroma was converted: two
\* pixels of one block with equal luma came out equal and coloured, and the
\* next block has another chroma pair
C14_Witness ==
    /\ Converted
    /\ args.width = 4
    /\ args.height % 2 = 0
    /\ PixelSource(0, 0)[2] # PixelSource(0, 2)[2]
    /\ PixelSource(0, 0)[1] = PixelSource(1, 1)[1]
    /\ PixelSource(0, 0)[2] # PixelSource(0, 0)[3]
    /\ PixelOut(0, 0) = PixelOut(1, 1)
    /\ PixelOut(0, 0)[1] # PixelOut(0, 0)[3]

\* C15: for odd width the last column of each row is converted with the chroma
\* pair of the column pair before it, not with a pair of its own.
C15_LastColumnSharesChroma ==
    (Converted /\ args.width % 2 = 1 /\ args.width >= 3)
    => \A row \in 0..(args.height - 1) :
          LET last == args.width - 1
              prev == PixelSource(row, last - 1)
          IN  PixelOut(row, last) =
                 PixelTable[<<args.matrix.name, args.full_range,
                              PixelSource(row, last)[1], prev[2], prev[3]>>]

ExpectedFile(matrix) ==
    LET converted == nv12_to_rgb24(frame.data, frame.width, frame.height,
                                   matrix, frame.full_range).rgb
        shown == IF mirror
                 THEN mirror_rgb(converted, frame.width, frame.height).data
                 ELSE converted
    IN  write_bmp(frame.width, frame.height, Known(shown), OverflowChecks)

C17_WitnessPlain ==
    /\ result = Ok
    /\ ~mirror
    /\ rgb_601 # rgb_709

\* the number of calls of write_bmp the run has made
WriteAttempts == Cardinality({i \in DOMAIN log : log[i] \in Writes})

\* C18: a failed file write is returned as the I/O error at once: the run ends
\* with that error, success is never reported with a write missing, and the
\* second file is not attempted after the first write failed.
C18_WriteErrorReturned ==
    /\ result = IoError => (pc = "done" /\ WriteAttempts = Len(files) + 1)
    /\ WriteAttempts > Len(files) => (pc = "done" /\ result.kind \in {"err", "panic"})
    /\ result = Ok => WriteAttempts = Len(files)
    /\ (Taken("write_bmp capture_bt601.bmp") /\ files = <<>>)
       => ~Taken("write_bmp capture_bt709.bmp")

\* the first write failed and the run ended with the I/O error
C18_Witness ==
    /\ result = IoError
    /\ pc = "done"
    /\ files = <<>>
    /\ Taken("write_bmp capture_bt601.bmp")

\* the second write failed after the first file was written
C18_WitnessSecond ==
    /\ result = IoError
    /\ Len(files) = 1
    /\ Taken("write_bmp capture_bt709.bmp")

\* the files of the run other than the two bitmaps
RawFiles ==
    {i \in DOMAIN files : files[i].path \notin {"capture_bt601.bmp", "capture_bt709.bmp"}}

\* C19: a successful capture test started with --save-raw has also saved the
\* raw NV12 bytes of the captured frame.
C19_SaveRaw ==
    (result = Ok /\ args.save_raw)
    => \E i \in RawFiles : files[i].buf = frame.data

\* ------------------------------------------------------------------------
\* platform/windows.rs: find_nv12_type
\* ------------------------------------------------------------------------
\* Option<(u32, u32)>
None == [some |-> FALSE]
Some(w, h) == [some |-> TRUE, w |-> w, h |-> h]

\* a media type: its MF_MT_SUBTYPE, and its MF_MT_FRAME_SIZE (w in the high 32
\* bits, h in the low 32 bits) or None where GetUINT64 fails
MediaType(subtype, frame_size) == [subtype |-> subtype, frame_size |-> frame_size]

\* the media types of one stream in order, skipping a stream whose descriptor,
\* handler or type count cannot be read
RECURSIVE StreamTypes(_, _, _)
StreamTypes(streams, i, j) ==
    IF i > Len(streams) THEN <<>>
    ELSE IF ~streams[i].readable \/ j > Len(streams[i].types)
    THEN StreamTypes(streams, i + 1, 1)
    ELSE <<[stream |-> i - 1, index |-> j - 1, type |-> streams[i].types[j]]>>
         \o StreamTypes(streams, i, j + 1)

\* Ok((media_type, w, h))
Found(entry) ==
    [kind |-> "ok", stream |-> entry.stream, index |-> entry.index,
     subtype |-> entry.type.subtype, w |-> entry.type.frame_size.w,
     h |-> entry.type.frame_size.h]

\* "No NV12 format at {rw}x{rh}. Available NV12 resolutions: {}"
NoFormatAt(requested, available) ==
    [kind |-> "err", error |-> "No NV12 format at", w |-> requested.w, h |-> requested.h,
     available |-> available]

\* "No NV12 media type found on this device"
NoNv12Type == [kind |-> "err", error |-> "No NV12 media type found on this device"]

\* if !available.contains(&(w, h)) { available.push((w, h)); }
PushNew(available, size) ==
    IF \E k \in DOMAIN available : available[k] = size THEN available
    ELSE Append(available, size)

\* if pixels > best_pixels
LargerThanBest(pixels, best_pixels) == pixels > best_pixels

\* the two loops over the streams and their media types, from entry k on
RECURSIVE ScanTypes(_, _, _, _, _, _)
ScanTypes(entries, k, requested, best, best_pixels, available) ==
    IF k > Len(entries)
    THEN IF requested.some THEN NoFormatAt(requested, available)
         ELSE IF best.some THEN Found(best.entry)
         ELSE NoNv12Type
    ELSE LET entry == entries[k]
             type == entry.type
         IN  IF type.subtype # "NV12" \/ ~type.frame_size.some
             THEN ScanTypes(entries, k + 1, requested, best, best_pixels, available)
             ELSE LET w == type.frame_size.w
                      h == type.frame_size.h
                      seen == PushNew(available, <<w, h>>)
                  IN  IF requested.some
                      THEN IF w = requested.w /\ h = requested.h
                           THEN Found(entry)
                           ELSE ScanTypes(entries, k + 1, requested, best, best_pixels, seen)
                      ELSE IF LargerThanBest(w * h, best_pixels)
                           THEN ScanTypes(entries, k + 1, requested,
                                          [some |-> TRUE, entry |-> entry], w * h, seen)
                           ELSE ScanTypes(entries, k + 1, requested, best, best_pixels, seen)

find_nv12_type(source, requested) ==
    ScanTypes(StreamTypes(source, 1, 1), 1, requested, None, 0, <<>>)

\* the most media types a device offers
MaxTypes == 3

MediaTypes ==
    { MediaType("NV12", Some(2, 2)), MediaType("NV12", Some(4, 2)),
      MediaType("NV12", Some(2, 4)), MediaType("NV12", Some(0, 4)),
      MediaType("NV12", None), MediaType("YUY2", Some(4, 4)) }

TypeLists == UNION { [1..n -> MediaTypes] : n \in 0..MaxTypes }

\* a device with two streams: the first types of the list are the first
\* stream's, the rest the second's, and the second may be unreadable
Sources ==
    UNION { { << [readable |-> TRUE, types |-> [k \in 1..cut |-> types[k]]],
                 [readable |-> second,
                  types |-> [k \in 1..(Len(types) - cut) |-> types[cut + k]]] >> :
                cut \in 0..Len(types), second \in BOOLEAN } :
            types \in TypeLists }

Resolutions == { None, Some(2, 2), Some(2, 4), Some(4, 4), Some(0, 4) }

FindArgs == { [source |-> source, requested |-> requested] :
                source \in Sources, requested \in Resolutions }

InitFind ==
    /\ pc = "call"
    /\ args \in FindArgs
    /\ ret = NoReturn
    /\ Idle

\* find_nv12_type(&source, resolution)
FindNv12Type ==
    /\ pc = "call"
    /\ ret' = find_nv12_type(args.source, args.requested)
    /\ pc' = "returned"
    /\ UNCHANGED <<profile, mirror, frame, rgb_601, rgb_709, files, result, log, args>>

NextFind == FindNv12Type

SpecFind == InitFind /\ [][NextFind]_vars

\* the NV12 media types of the device that carry a frame size, as positions
\* <<stream, index>>
Nv12Types ==
    { <<i, j>> \in (1..Len(args.source)) \X (1..MaxTypes + 1) :
        /\ args.source[i].readable
        /\ j <= Len(args.source[i].types)
        /\ args.source[i].types[j].subtype = "NV12"
        /\ args.source[i].types[j].frame_size.some }

TypeAt(at) == args.source[at[1]].types[at[2]]
Area(at) == TypeAt(at).frame_size.w * TypeAt(at).frame_size.h

\* the result is the media type at one of the positions
Returns(at) ==
    /\ ret.kind = "ok"
    /\ ret.stream = at[1] - 1
    /\ ret.index = at[2] - 1
    /\ ret.subtype = "NV12"
    /\ ret.w = TypeAt(at).frame_size.w
    /\ ret.h = TypeAt(at).frame_size.h

\* C20: without a resolution find_nv12_type returns the NV12 type of greatest
\* width*height of all streams; with a resolution it returns an NV12 type of
\* exactly that size or fails listing the available NV12 resolutions; it never
\* returns a type that is not NV12 and it fails when there is no NV12 type.
C20_FormatSelection ==
    pc = "returned"
    => /\ ret.kind = "ok" => \E at \in Nv12Types : Returns(at)
       /\ Nv12Types = {} => ret.kind = "err"
       /\ (~args.requested.some /\ Nv12Types # {})
          => \E at \in Nv12Types :
                /\ Returns(at)
                /\ \A other \in Nv12Types : Area(other) <= Area(at)
       /\ args.requested.some
          => \/ /\ ret.kind = "ok"
                /\ ret.w = args.requested.w
                /\ ret.h = args.requested.h
             \/ /\ ret.kind = "err"
                /\ ret.error = "No NV12 format at"
                /\ \A at \in Nv12Types :
                      /\ <<TypeAt(at).frame_size.w, TypeAt(at).frame_size.h>>
                            # <<args.requested.w, args.requested.h>>
                      /\ \E k \in DOMAIN ret.available :
                            ret.available[k]
                              = <<TypeAt(at).frame_size.w, TypeAt(at).frame_size.h>>
                /\ \A k \in DOMAIN ret.available : \E at \in Nv12Types :
                      ret.available[k]
                        = <<TypeAt(at).frame_size.w, TypeAt(at).frame_size.h>>

\* ------------------------------------------------------------------------
\* cli.rs: parse_args
\* ------------------------------------------------------------------------
\* an argument is the sequence of its characters
ArgCaptureTest == <<"-", "-", "c", "a", "p", "t", "u", "r", "e", "-", "t", "e", "s", "t">>
ArgForceMatrix == <<"-", "-", "f", "o", "r", "c", "e", "-", "m", "a", "t", "r", "i", "x">>
ArgHelp == <<"-", "-", "h", "e", "l", "p">>
ArgMirror == <<"-", "-", "m", "i", "r", "r", "o", "r">>
ArgSaveRaw == <<"-", "-", "s", "a", "v", "e", "-", "r", "a", "w">>
NameBt601 == <<"b", "t", "6", "0", "1">>
NameBt709 == <<"b", "t", "7", "0", "9">>

DecimalDigits == <<"0", "1", "2", "3", "4", "5", "6", "7", "8", "9">>
IsDigit(c) == \E d \in DOMAIN DecimalDigits : DecimalDigits[d] = c
DigitValue(c) == (CHOOSE d \in DOMAIN DecimalDigits : DecimalDigits[d] = c) - 1

\* str::to_lowercase on the letters the arguments use
LowerChar(c) ==
    CASE c = "X" -> "x"
      [] c = "B" -> "b"
      [] c = "T" -> "t"
      [] OTHER -> c
to_lowercase(text) == [k \in DOMAIN text |-> LowerChar(text[k])]

\* the value of a run of digits read from the left
RECURSIVE DigitsValue(_, _, _)
DigitsValue(text, k, value) ==
    IF k > Len(text) THEN value
    ELSE DigitsValue(text, k + 1, value * 10 + DigitValue(text[k]))

\* str::parse::<usize> and str::parse::<u32>: an optional '+', then one or
\* more digits; anything else is an error
ParseUnsigned(text) ==
    LET digits == IF Len(text) > 0 /\ text[1] = "+"
                  THEN [k \in 1..(Len(text) - 1) |-> text[k + 1]]
                  ELSE text
    IN  IF Len(digits) > 0 /\ \A k \in DOMAIN digits : IsDigit(digits[k])
        THEN [ok |-> TRUE, value |-> DigitsValue(digits, 1, 0)]
        ELSE [ok |-> FALSE]

\* parse_resolution: "WxH" in either case, or None
parse_resolution(text) ==
    LET lower == to_lowercase(text)
        marks == {k \in DOMAIN lower : lower[k] = "x"}
    IN  IF Cardinality(marks) # 1 THEN None
        ELSE LET at == CHOOSE k \in marks : TRUE
                 w == ParseUnsigned([k \in 1..(at - 1) |-> lower[k]])
                 h == ParseUnsigned([k \in 1..(Len(lower) - at) |-> lower[at + k]])
             IN  IF w.ok /\ h.ok THEN Some(w.value, h.value) ELSE None

CliError(message, arg) == [kind |-> "err", error |-> message, arg |-> arg]

Enumerate == [kind |-> "ok", command |-> "Enumerate"]

CaptureTest(device_index, resolution, mirror_flag, save_raw) ==
    [kind |-> "ok", command |-> "CaptureTest", device_index |-> device_index,
     resolution |-> resolution, mirror |-> mirror_flag, save_raw |-> save_raw]

ForceMatrix(matrix, device_index) ==
    [kind |-> "ok", command |-> "ForceMatrix", matrix |-> matrix,
     device_index |-> device_index]

\* a faulty parse_optional_device_index that takes the number as the index
parse_optional_device_index_zero_based(argv, pos) ==
    IF pos < Len(argv)
    THEN LET n == ParseUnsigned(argv[pos + 1])
         IN  IF ~n.ok THEN CliError("Invalid device number", argv[pos + 1])
             ELSE [kind |-> "ok", value |-> n.value]
    ELSE [kind |-> "ok", value |-> 0]

\* parse_optional_device_index(args, pos), pos counted from 0
parse_optional_device_index(argv, pos) ==
    IF pos < Len(argv)
    THEN LET n == ParseUnsigned(argv[pos + 1])
         IN  IF ~n.ok THEN CliError("Invalid device number", argv[pos + 1])
             ELSE IF n.value = 0
             THEN CliError("Device number must be >= 1 (1-based index).", argv[pos + 1])
             ELSE [kind |-> "ok", value |-> n.value - 1]
    ELSE [kind |-> "ok", value |-> 0]

\* the loop of "--capture-test" over args[1..], from argument k on
RECURSIVE CaptureTestArgs(_, _, _, _, _, _)
CaptureTestArgs(argv, k, device_index, resolution, mirror_flag, save_raw) ==
    IF k > Len(argv) THEN CaptureTest(device_index, resolution, mirror_flag, save_raw)
    ELSE LET arg == argv[k]
         IN  IF arg = ArgMirror
             THEN CaptureTestArgs(argv, k + 1, device_index, resolution, TRUE, save_raw)
             ELSE IF arg = ArgSaveRaw
             THEN CaptureTestArgs(argv, k + 1, device_index, resolution, mirror_flag, TRUE)
             ELSE IF parse_resolution(arg).some
             THEN CaptureTestArgs(argv, k + 1, device_index, parse_resolution(arg),
                                  mirror_flag, save_raw)
             ELSE IF ParseUnsigned(arg).ok
             THEN IF ParseUnsigned(arg).value = 0
                  THEN CliError("Device number must be >= 1 (1-based index).", arg)
                  ELSE CaptureTestArgs(argv, k + 1, ParseUnsigned(arg).value - 1,
                                       resolution, mirror_flag, save_raw)
             ELSE CliError("Unknown argument for --capture-test", arg)

\* "--force-matrix"
ForceMatrixArgs(argv) ==
    IF Len(argv) < 2 THEN CliError("--force-matrix requires a value: bt601 or bt709", <<>>)
    ELSE LET name == to_lowercase(argv[2])
         IN  IF name # NameBt601 /\ name # NameBt709
             THEN CliError("Unknown matrix", name)
             ELSE LET device_index == parse_optional_device_index(argv, 2)
                  IN  IF device_index.kind = "err" THEN device_index
                      ELSE ForceMatrix(IF name = NameBt601 THEN "Bt601" ELSE "Bt709",
                                       device_index.value)

\* parse_args on the arguments after the program name
parse_args(argv) ==
    IF Len(argv) = 0 THEN Enumerate
    ELSE IF argv[1] = ArgHelp THEN [kind |-> "exit", code |-> 0]
    ELSE IF argv[1] = ArgCaptureTest THEN CaptureTestArgs(argv, 2, 0, None, FALSE, FALSE)
    ELSE IF argv[1] = ArgForceMatrix THEN ForceMatrixArgs(argv)
    ELSE CliError("Unknown argument", argv[1])

\* the most arguments on a command line
MaxArgs == 3

Arguments ==
    { ArgCaptureTest, ArgForceMatrix, ArgHelp, ArgMirror, ArgSaveRaw, NameBt601,
      <<"B", "T", "7", "0", "9">>, <<"0">>, <<"1">>, <<"2">>, <<"1", "0">>,
      <<"2", "X", "4">>, <<"-", "1">> }

CommandLines == UNION { [1..n -> Arguments] : n \in 0..MaxArgs }

InitCli ==
    /\ pc = "call"
    /\ args \in { [argv |-> argv] : argv \in CommandLines }
    /\ ret = NoReturn
    /\ Idle

\* cli::parse_args()
ParseArgs ==
    /\ pc = "call"
    /\ ret' = parse_args(args.argv)
    /\ pc' = "returned"
    /\ UNCHANGED <<profile, mirror, frame, rgb_601, rgb_709, files, result, log, args>>

NextCli == ParseArgs

SpecCli == InitCli /\ [][NextCli]_vars

\* the device numbers a command line can carry, with the numbers they denote
DeviceNumbers ==
    { <<<<"0">>, 0>>, <<<<"1">>, 1>>, <<<<"2">>, 2>>, <<<<"1", "0">>, 10>> }
IsDeviceNumber(arg) == \E n \in DeviceNumbers : n[1] = arg
NumberOf(arg) == (CHOOSE n \in DeviceNumbers : n[1] = arg)[2]

\* the positions of the command line where the command takes a device number
DevicePositions ==
    IF Len(args.argv) = 0 THEN {}
    ELSE IF args.argv[1] = ArgCaptureTest
    THEN {k \in 2..Len(args.argv) : IsDeviceNumber(args.argv[k])}
    ELSE IF args.argv[1] = ArgForceMatrix
    THEN {k \in {3} : k <= Len(args.argv) /\ IsDeviceNumber(args.argv[k])}
    ELSE {}

DeviceCommand ==
    /\ pc = "returned"
    /\ Len(args.argv) > 0
    /\ args.argv[1] \in {ArgCaptureTest, ArgForceMatrix}

\* C21: device numbers are 1-based: for --capture-test and --force-matrix a
\* number N >= 1 gives device_index N-1, no number gives device_index 0, and
\* the number 0 is rejected with an error.
C21_DeviceNumbers ==
    DeviceCommand
    => /\ (\E k \in DevicePositions : NumberOf(args.argv[k]) = 0) => ret.kind = "err"
       /\ ret.kind = "ok"
          => /\ DevicePositions = {} => ret.device_index = 0
             /\ DevicePositions # {}
                => \E k \in DevicePositions :
                      /\ NumberOf(args.argv[k]) >= 1
                      /\ ret.device_index = NumberOf(args.argv[k]) - 1
             /\ \A k \in DevicePositions :
                   DevicePositions = {k} => ret.device_index = NumberOf(args.argv[k]) - 1
       /\ (/\ Cardinality(DevicePositions) = 1
           /\ \A k \in DevicePositions : NumberOf(args.argv[k]) >= 1
           /\ args.argv[1] = ArgCaptureTest
           /\ \A k \in 2..Len(args.argv) :
                 k \in DevicePositions \/ args.argv[k] \in {ArgMirror, ArgSaveRaw})
          => ret.kind = "ok"
       /\ (/\ args.argv[1] = ArgForceMatrix
           /\ Len(args.argv) >= 2
           /\ to_lowercase(args.argv[2]) \in {NameBt601, NameBt709}
           /\ Len(args.argv) >= 3 => (3 \in DevicePositions /\ NumberOf(args.argv[3]) >= 1))
          => ret.kind = "ok"

\* --force-matrix with device number 10 gave device_index 9
C21_Witness ==
    /\ DeviceCommand
    /\ args.argv[1] = ArgForceMatrix
    /\ Len(args.argv) = 3
    /\ args.argv[3] = <<"1", "0">>
    /\ ret.kind = "ok"
    /\ ret.device_index = 9

\* --capture-test with device number 2 and a flag gave device_index 1
C21_WitnessCapture ==
    /\ DeviceCommand
    /\ args.argv = <<ArgCaptureTest, <<"2">>, ArgMirror>>
    /\ ret.kind = "ok"
    /\ ret.device_index = 1
    /\ ret.mirror

\* device number 0 was rejected
C21_WitnessZero ==
    /\ DeviceCommand
    /\ DevicePositions # {}
    /\ \E k \in DevicePositions : NumberOf(args.argv[k]) = 0
    /\ ret.kind = "err"
    /\ ret.error = "Device number must be >= 1 (1-based index)."

\* ------------------------------------------------------------------------
\* platform/windows.rs: with_mf
\* ------------------------------------------------------------------------
\* the callers of with_mf
MfCallers == {"enumerate_devices", "capture_frame", "force_matrix"}

\* what the closure of a caller can return
ClosureResults(caller) ==
    {[kind |-> "err", error |-> caller \o " failed"]}
    \cup (IF caller = "capture_frame"
          THEN {[kind |-> "ok", value |-> captured] : captured \in SmallFrames}
          ELSE {Ok})

InitMf ==
    /\ pc = "co_initialize"
    /\ args \in {[fn |-> "with_mf", f |-> caller] : caller \in MfCallers}
    /\ ret = NoReturn
    /\ Idle

\* CoInitializeEx(None, COINIT_MULTITHREADED).ok().context(..)? succeeds
CoInitializeOk ==
    /\ pc = "co_initialize"
    /\ log' = Append(log, "CoInitializeEx ok")
    /\ pc' = "mf_startup"
    /\ UNCHANGED <<profile, mirror, frame, rgb_601, rgb_709, files, result, args, ret>>

\* CoInitializeEx(..).ok().context("Failed to initialize COM")? fails
CoInitializeFails ==
    /\ pc = "co_initialize"
    /\ log' = Append(log, "CoInitializeEx failed")
    /\ ret' = [kind |-> "err", error |-> "Failed to initialize COM"]
    /\ pc' = "returned"
    /\ UNCHANGED <<profile, mirror, frame, rgb_601, rgb_709, files, result, args>>

\* MFStartup(MF_API_VERSION, MFSTARTUP_FULL).context(..)? succeeds
MFStartupOk ==
    /\ pc = "mf_startup"
    /\ log' = Append(log, "MFStartup ok")
    /\ pc' = "closure"
    /\ UNCHANGED <<profile, mirror, frame, rgb_601, rgb_709, files, result, args, ret>>

\* MFStartup(..).context("Failed to initialize Media Foundation")? fails
MFStartupFails ==
    /\ pc = "mf_startup"
    /\ log' = Append(log, "MFStartup failed")
    /\ ret' = [kind |-> "err", error |-> "Failed to initialize Media Foundation"]
    /\ pc' = "returned"
    /\ UNCHANGED <<profile, mirror, frame, rgb_601, rgb_709, files, result, args>>

\* let result = f();
RunClosure ==
    /\ pc = "closure"
    /\ log' = Append(log, "f")
    /\ result' \in ClosureResults(args.f)
    /\ pc' = "mf_shutdown"
    /\ UNCHANGED <<profile, mirror, frame, rgb_601, rgb_709, files, args, ret>>

\* MFShutdown().ok();
MFShutdownCall ==
    /\ pc = "mf_shutdown"
    /\ log' = Append(log, "MFShutdown")
    /\ pc' = "co_uninitialize"
    /\ UNCHANGED <<profile, mirror, frame, rgb_601, rgb_709, files, result, args, ret>>

\* CoUninitialize(); result
CoUninitializeCall ==
    /\ pc = "co_uninitialize"
    /\ log' = Append(log, "CoUninitialize")
    /\ ret' = result
    /\ pc' = "returned"
    /\ UNCHANGED <<profile, mirror, frame, rgb_601, rgb_709, files, result, args>>

NextMf ==
    \/ CoInitializeOk
    \/ CoInitializeFails
    \/ MFStartupOk
    \/ MFStartupFails
    \/ RunClosure
    \/ MFShutdownCall
    \/ CoUninitializeCall

SpecMf == InitMf /\ [][NextMf]_vars

\* C22: with_mf cleans up what it initialized: when it has returned,
\* CoUninitialize was called if CoInitializeEx succeeded and MFShutdown was
\* called if MFStartup succeeded, and the closure ran only after both
\* initializations succeeded.
C22_CleansUp ==
    /\ Taken("f") => (Precedes("CoInitializeEx ok", "f") /\ Precedes("MFStartup ok", "f"))
    /\ (pc = "returned" /\ args.fn = "with_mf")
       => /\ Taken("CoInitializeEx ok")
             => (Taken("CoUninitialize") /\ Precedes("CoInitializeEx ok", "CoUninitialize"))
          /\ Taken("MFStartup ok")
             => (Taken("MFShutdown") /\ Precedes("MFStartup ok", "MFShutdown"))

\* C23: the u32 size arithmetic never weakens the check: the required size
\* computed by run_capture_test is floor(width*height*3/2), so a frame that
\* passes the size check is long enough for the plane split and every chroma
\* read of nv12_to_rgb24.
C23_SizeCheckSound ==
    /\ Taken("check_size")
       => expected_size(frame, OverflowChecks) = ExactNv12Size(frame)
    /\ Taken("nv12_to_rgb24 BT.601")
       => /\ BLeq(ExactNv12Size(frame), Big(Len(frame.data)))
          /\ \A matrix \in {BT601, BT709} :
                ~IsPanic(nv12_to_rgb24(frame.data, frame.width, frame.height,
                                       matrix, frame.full_range))

====
